---- MODULE Spec2Model ----
(***************************************************************************)
(* The hyperstate execution engine: a finite-state machine whose history   *)
(* is kept in an append-only Hypercore.  Two engine classes are modelled:  *)
(* the Duplex-stream engine (Coremachine / Hypercube) and the              *)
(* ReadyResource engine (Hyperstate).  Every await of the source is a      *)
(* separate step; the synchronous code between two awaits is one step.     *)
(***************************************************************************)
EXTENDS Integers, Sequences, FiniteSets, TLC

\* ------------------------------------------------------------------ bounds
MaxLen == 2          \* actions are issued only while the log is shorter
MaxCounter == 1      \* largest value of ctx.counter the callers produce
MaxEmitted == 2      \* notifications not yet consumed by the listener
MaxWrites == 2       \* messages buffered on the writable side
MaxCalls == 2        \* action() calls in flight at once when not awaited
ScenarioLen == 4     \* log records in the run of the example script
ScenarioCounter == 3 \* largest counter value in the run of the example script

\* ------------------------------------------------------------ JS values
Undefined == "undefined"     \* a missing target / a state that is undefined
Null == <<>>                 \* _currentIndex === null
NoValue == <<>>              \* action(name) called without a payload
At(i) == <<i>>               \* a non-null index / a payload holding i
Val(c) == c[1]

Contexts == [counter : 0..MaxCounter]
NoContext == [counter |-> 0]

\* ------------------------------------------------- the machine definition
Transition(target, action) == [target |-> target, action |-> action]
NoTransition == [target |-> Undefined, action |-> Undefined]
NoProps == [x \in {} |-> NoTransition]

\* The counter machine of the examples (idle/running, START, INCREMENT,
\* STOP; the context is its counter), with the optional parts the engine
\* reads: a transition without target (TICK), an action that writes to the
\* context and then throws (FAIL), a reserved `start` transition on
\* running, and a wildcard node `all` whose RESET transition sits either
\* under `on` or directly on the node.
IdleOn == "START" :> Transition("running", "start")

RunningOn(hasTick, hasStart) ==
    ("INCREMENT" :> Transition("running", "increment"))
    @@ ("STOP" :> Transition("idle", "stop"))
    @@ ("FAIL" :> Transition("idle", "fail"))
    @@ (IF hasTick THEN "TICK" :> Transition(Undefined, "increment") ELSE NoProps)
    @@ (IF hasStart THEN "start" :> Transition("idle", "halt") ELSE NoProps)

AllNode(shape) ==
    IF shape = "on"
    THEN [on |-> "RESET" :> Transition("idle", "reset"), props |-> NoProps]
    ELSE [on |-> NoProps, props |-> "RESET" :> Transition("idle", "reset")]

createMachine(hasTick, hasStart, allShape) ==
    [initial |-> "idle",
     context |-> [counter |-> 0],
     states |->
        ("idle" :> [on |-> IdleOn, props |-> NoProps])
        @@ ("running" :> [on |-> RunningOn(hasTick, hasStart), props |-> NoProps])
        @@ (IF allShape = "none" THEN [x \in {} |-> [on |-> NoProps, props |-> NoProps]]
            ELSE "all" :> AllNode(allShape))]

\* The engines and definitions checked: the stream engine, whose action()
\* looks at the wildcard node, with and without each optional part; the
\* resource engine, which knows no wildcard.
Setups ==
    {[engine |-> "Coremachine", eager |-> e, machine |-> createMachine(TRUE, s, a)] :
        e \in BOOLEAN, s \in BOOLEAN, a \in {"none", "on", "props"}}
    \cup {[engine |-> "Hyperstate", eager |-> e, machine |-> createMachine(TRUE, e, "none")] :
        e \in BOOLEAN}

HasStartOn(m, s) == s \in DOMAIN m.states /\ "start" \in DOMAIN m.states[s].on
HasStart(m) == \E s \in DOMAIN m.states : "start" \in DOMAIN m.states[s].on
HasAll(m) == "all" \in DOMAIN m.states

\* Action functions whose STOP without a final count clears the counter.
ApplyActionStopClears(kind, ctx, v) ==
    CASE kind = "start" ->
            [context |-> [ctx EXCEPT !.counter = Val(v)], threw |-> FALSE]
      [] kind = "increment" ->
            [context |-> [ctx EXCEPT !.counter = @ + 1], threw |-> FALSE]
      [] kind = "stop" ->
            [context |-> [ctx EXCEPT !.counter = IF v = NoValue THEN 0 ELSE Val(v)],
             threw |-> FALSE]
      [] kind = "fail" ->
            [context |-> [ctx EXCEPT !.counter = 0], threw |-> TRUE]
      [] kind = "halt" ->
            [context |-> [ctx EXCEPT !.counter = 0], threw |-> FALSE]
      [] kind = "reset" ->
            [context |-> [ctx EXCEPT !.counter = 0], threw |-> FALSE]

\* The action functions of the definition: the context after the call and
\* whether the call threw.
ApplyAction(kind, ctx, v) ==
    CASE kind = "start" ->
            [context |-> [ctx EXCEPT !.counter = Val(v)], threw |-> FALSE]
      [] kind = "increment" ->
            [context |-> [ctx EXCEPT !.counter = @ + 1], threw |-> FALSE]
      [] kind = "stop" ->
            [context |-> [ctx EXCEPT !.counter = IF v = NoValue THEN @ ELSE Val(v)],
             threw |-> FALSE]
      [] kind = "fail" ->
            [context |-> [ctx EXCEPT !.counter = 0], threw |-> TRUE]
      [] kind = "halt" ->
            [context |-> [ctx EXCEPT !.counter = 0], threw |-> FALSE]
      [] kind = "reset" ->
            [context |-> [ctx EXCEPT !.counter = 0], threw |-> FALSE]

\* What callers send: the payloads of the README example.
Messages ==
    {[action |-> "START", value |-> At(1)]}
    \cup {[action |-> a, value |-> NoValue] : a \in {"INCREMENT", "TICK", "FAIL", "RESET", "STOP"}}

\* ------------------------------------------------------------------ state
VARIABLES
    engine,         \* "Coremachine" (Duplex stream) or "Hyperstate" (ReadyResource)
    eager,          \* opts.eager
    machine,        \* the definition object handed to the constructor
    _core,          \* the Hypercore: its blocks and whether it is closed
    _state,
    _context,
    _currentIndex,
    shared,         \* TRUE while _context is the very object machine.context
    status,         \* lifecycle of the stream / resource
    emitted,        \* messages pushed to the readable side / stateChange events
    wq,             \* messages buffered on the writable side
    calls,          \* the engine calls in flight, each at one of its awaits
    last,           \* the call that settled in the step just taken
    prev,           \* what the previous engine on this log showed when it closed
    written         \* the stream writes so far, and the write each block came from

vars == <<engine, eager, machine, _core, _state, _context, _currentIndex, shared,
          status, emitted, wq, calls, last, prev, written>>

length == Len(_core.blocks)

\* What a caller can observe of the engine, the length of its log and what
\* it has notified.
Observable ==
    [state |-> _state, context |-> _context, index |-> _currentIndex,
     length |-> length, emitted |-> emitted]

NoRecord == [state |-> Undefined, context |-> NoContext]
NoObservable ==
    [state |-> Undefined, context |-> NoContext, index |-> Null, length |-> 0,
     emitted |-> <<>>]
NoChunk == [action |-> Undefined, value |-> NoValue]
NoMove == [op |-> "none", pre |-> NoObservable]
NoLast ==
    [op |-> "none", via |-> "none", name |-> "", id |-> 0, outcome |-> "none",
     error |-> "none", ret |-> NoRecord, tr |-> NoTransition, rec |-> NoRecord,
     idx |-> 0, pre |-> NoObservable, before |-> NoMove, first |-> FALSE,
     chunk |-> NoChunk]
NoWrites == [next |-> 1, origin |-> <<>>]
NoPrev ==
    [valid |-> FALSE, state |-> Undefined, context |-> NoContext,
     afterAction |-> FALSE, truncated |-> Null, fresh |-> FALSE]

Call(op, via, pc, tr) ==
    [op |-> op, via |-> via, name |-> "", id |-> 0, pc |-> pc, tr |-> tr,
     rec |-> NoRecord, oldState |-> NoContext, idx |-> 0, pre |-> Observable,
     before |-> NoMove, first |-> prev.fresh, chunk |-> NoChunk]

Remove(seq, i) == SubSeq(seq, 1, i - 1) \o SubSeq(seq, i + 1, Len(seq))

\* ---------------------------------------------------- the context object
\* A transition's action writes into the object _context refers to: every
\* holder of that object (the definition, a pushed message) sees the write.
MutateContext(ctx) ==
    /\ _context' = ctx
    /\ machine' = IF shared THEN [machine EXCEPT !.context = ctx] ELSE machine
    /\ emitted' = [k \in DOMAIN emitted |->
                     IF emitted[k].live THEN [emitted[k] EXCEPT !.context = ctx]
                     ELSE emitted[k]]
    /\ UNCHANGED shared

\* core.get() decodes a block into a new object, which replaces _context;
\* `more` are the notifications produced in the same step.
Detached(seq) == [k \in DOMAIN seq |-> [seq[k] EXCEPT !.live = FALSE]]

ReplaceContext(ctx, more) ==
    /\ _context' = ctx
    /\ shared' = FALSE
    /\ emitted' = Detached(emitted) \o more
    /\ UNCHANGED machine

Data(s, ctx) ==
    [kind |-> "data", state |-> s, context |-> ctx, oldState |-> NoContext, live |-> TRUE]
\* An event whose oldState is taken when the event is emitted.
StateChangeLate(ctx, old) ==
    [kind |-> "stateChange", state |-> Undefined, context |-> ctx, oldState |-> ctx,
     live |-> TRUE]

\* emit("stateChange", {newState: this._context, oldState})
StateChange(ctx, old) ==
    [kind |-> "stateChange", state |-> Undefined, context |-> ctx, oldState |-> old,
     live |-> TRUE]

\* ------------------------------------------------------------ settlement
\* A call settles: the caller sees the outcome.  A stream write whose
\* action() rejected hands the error to the stream, which destroys itself
\* and drops the buffered writes.
Settle(c, outcome, error, ret, wqNext, statusNext) ==
    /\ last' = [op |-> c.op, via |-> c.via, name |-> c.name, id |-> c.id,
                outcome |-> outcome, error |-> error, ret |-> ret, tr |-> c.tr,
                rec |-> c.rec, idx |-> c.idx, pre |-> c.pre, before |-> c.before,
                first |-> c.first, chunk |-> c.chunk]
    /\ IF c.via = "write" /\ outcome = "rejected"
       THEN wq' = <<>> /\ status' = "destroying"
       ELSE wq' = wqNext /\ status' = statusNext

\* ------------------------------------------------------------ constructor
\* A constructor that does not start in the definition's initial state.
ConstructorElsewhere(e, m) ==
    [state |-> "running", context |-> m.context, shared |-> (e = "Hyperstate"),
     index |-> Null]

\* The fields the constructor sets: the stream engine clones the definition's
\* context, the resource engine keeps the definition's own object.
Constructor(e, m) ==
    [state |-> m.initial, context |-> m.context, shared |-> (e = "Hyperstate"),
     index |-> Null]

InitFrom(setups) ==
    /\ \E setup \in setups :
          /\ engine = setup.engine
          /\ eager = setup.eager
          /\ machine = setup.machine
    /\ _core = [blocks |-> <<>>, closed |-> FALSE]
    /\ _state = Constructor(engine, machine).state
    /\ _context = Constructor(engine, machine).context
    /\ shared = Constructor(engine, machine).shared
    /\ _currentIndex = Constructor(engine, machine).index
    /\ status = "constructed"
    /\ emitted = <<>>
    /\ wq = <<>>
    /\ calls = <<>>
    /\ last = NoLast
    /\ prev = [NoPrev EXCEPT !.fresh = TRUE]
    /\ written = NoWrites

Init == InitFrom(Setups)

\* ------------------------------------------------------------------ open
\* ready() of the resource, or the first read or write on the stream, runs
\* _open once: it awaits core.ready().
OpenCall ==
    /\ status = "constructed"
    /\ calls = <<>>
    /\ status' = "opening"
    /\ calls' = <<Call("open", "direct", "ready", NoTransition)>>
    /\ last' = NoLast
    /\ UNCHANGED <<engine, eager, machine, _core, _state, _context, _currentIndex,
                   shared, emitted, wq, prev, written>>

\* A replay that stays in the persisted state.
StartTargetPersisted(m, s) == s

\* The state the restored record's node resumes into.
StartTarget(m, s) ==
    IF s \in DOMAIN m.states /\ "start" \in DOMAIN m.states[s].on
       /\ m.states[s].on["start"].target # Undefined
    THEN m.states[s].on["start"].target
    ELSE s

\* The context after the start transition's action, which only the stream
\* engine runs.
StartContext(e, m, s, ctx) ==
    IF e = "Coremachine" /\ s \in DOMAIN m.states /\ "start" \in DOMAIN m.states[s].on
    THEN ApplyAction(m.states[s].on["start"].action, ctx, NoValue).context
    ELSE ctx

\* What an eager open surfaces.
EagerNotice(e, s, ctx) ==
    IF e = "Coremachine" THEN Data(s, ctx) ELSE StateChange(ctx, NoContext)

\* A replay that reads the first block.
FirstIndex(len) == 0

\* The index of the last block: core.length - 1.
TipIndex(len) == len - 1

\* core.ready() has resolved: an empty log leaves the constructor's state,
\* otherwise the last block is requested.
OpenReady(i) ==
    /\ calls[i].op = "open" /\ calls[i].pc = "ready"
    /\ IF length > 0
       THEN /\ calls' = [calls EXCEPT ![i].pc = "get", ![i].idx = TipIndex(length)]
            /\ last' = NoLast
            /\ UNCHANGED <<status, wq>>
       ELSE /\ calls' = Remove(calls, i)
            /\ Settle(calls[i], "resolved", "none", NoRecord, wq, "opened")
    /\ UNCHANGED <<engine, eager, machine, _core, _state, _context, _currentIndex,
                   shared, emitted, prev, written>>

\* The last block has arrived: it becomes the state and the context, the
\* start transition is applied without a record, eager mode surfaces it.
OpenGet(i) ==
    /\ calls[i].op = "open" /\ calls[i].pc = "get"
    /\ calls[i].idx < length /\ ~_core.closed
    /\ LET lastState == _core.blocks[calls[i].idx + 1]
           s == StartTarget(machine, lastState.state)
           ctx == StartContext(engine, machine, lastState.state, lastState.context)
       IN /\ _state' = s
          /\ ReplaceContext(ctx, IF eager THEN <<EagerNotice(engine, s, ctx)>> ELSE <<>>)
          /\ calls' = Remove(calls, i)
          /\ Settle([calls[i] EXCEPT !.rec = lastState], "resolved", "none",
                    [state |-> s, context |-> ctx], wq, "opened")
    /\ UNCHANGED <<engine, eager, _core, _currentIndex, prev, written>>

\* --------------------------------------------------------------- action()
Lookup(on, n) == IF n \in DOMAIN on THEN on[n] ELSE NoTransition

\* A resolver that also tries the initial state's transitions.
ResolveInitial(e, m, s, n) ==
    LET own == IF s \in DOMAIN m.states THEN Lookup(m.states[s].on, n) ELSE NoTransition
    IN IF own # NoTransition THEN own ELSE Lookup(m.states[m.initial].on, n)

\* currentState?.on[action] || states.all?.[action]  (the stream engine);
\* currentState?.on[event]  (the resource engine).
Resolve(e, m, s, n) ==
    LET own == IF s \in DOMAIN m.states THEN Lookup(m.states[s].on, n) ELSE NoTransition
        wild == IF "all" \in DOMAIN m.states THEN Lookup(m.states["all"].props, n)
                ELSE NoTransition
    IN IF own # NoTransition THEN own
       ELSE IF e = "Coremachine" THEN wild ELSE NoTransition

\* transition.target || this._state  (the stream engine); transition.target
\* (the resource engine).
NextState(e, tr, s) ==
    IF e = "Coremachine" /\ tr.target = Undefined THEN s ELSE tr.target

\* A notification for every committed action, with or without target.
NoticesAlways(e, tr, s, ctx, old) ==
    IF e = "Coremachine" THEN <<Data(s, ctx)>> ELSE <<StateChange(ctx, old)>>

\* What a committed action notifies: the stream engine pushes only for a
\* transition with a target, the resource engine always emits stateChange.
Notices(e, tr, s, ctx, old) ==
    IF e = "Coremachine"
    THEN IF tr.target # Undefined THEN <<Data(s, ctx)>> ELSE <<>>
    ELSE <<StateChange(ctx, old)>>

\* Object.keys(currentState?.on || {})
getAvailableActions(m, s) ==
    IF s \in DOMAIN m.states THEN DOMAIN m.states[s].on ELSE {}

\* The synchronous head of action(): resolve, throw on no transition, clone
\* the context, run the transition's action on the live context.
ActionHead(msg, via, wqNext, room, bound) ==
    LET tr == Resolve(engine, machine, _state, msg.action)
        c == [Call("action", via, "applied", tr)
                 EXCEPT !.name = msg.action, !.id = msg.id, !.chunk = msg.chunk]
    IN IF tr = NoTransition
       THEN /\ Settle(c, "rejected", "InvalidAction", NoRecord, wqNext, status)
            /\ UNCHANGED <<machine, _context, shared, emitted, calls>>
       ELSE LET r == ApplyAction(tr.action, _context, msg.value)
            IN /\ r.context.counter <= bound.counter
               /\ length < bound.len
               /\ room
               /\ MutateContext(r.context)
               /\ IF r.threw
                  THEN /\ Settle(c, "rejected", "ActionError", NoRecord, wqNext, status)
                       /\ UNCHANGED calls
                  ELSE /\ calls' = Append(calls, [c EXCEPT !.oldState = _context])
                       /\ last' = NoLast
                       /\ wq' = wqNext
                       /\ UNCHANGED status

\* A call made on the engine itself is no stream write.
Direct(msg) == [action |-> msg.action, value |-> msg.value, id |-> 0, chunk |-> msg]

\* How far the callers drive the log and the counter.
Bound == [len |-> MaxLen, counter |-> MaxCounter]

\* A caller that uses the engine directly awaits each call before the next
\* one, and its listener has handled what the call before notified.
Awaited == calls = <<>> /\ wq = <<>> /\ emitted = <<>>

\* While the engine is in use: constructed (the stream opens lazily) or open.
InUse == status \in {"constructed", "opened"}

ActionCall(msg) ==
    /\ Awaited /\ InUse
    /\ ActionHead(Direct(msg), "direct", wq, TRUE, Bound)
    /\ UNCHANGED <<engine, eager, _core, _state, _currentIndex>>
    /\ prev' = NoPrev
    /\ UNCHANGED written

\* An append step that advances the state before the core has answered.
ActionAppendEarly(i) ==
    /\ calls[i].op = "action" /\ calls[i].pc = "applied"
    /\ calls' = [calls EXCEPT ![i].pc = "appending",
                              ![i].rec = [state |-> NextState(engine, calls[i].tr, _state),
                                          context |-> _context]]
    /\ _state' = NextState(engine, calls[i].tr, _state)
    /\ last' = NoLast
    /\ UNCHANGED <<engine, eager, machine, _core, _context, _currentIndex,
                   shared, status, emitted, wq, prev, written>>

\* An append of the context as it was cloned before the action ran.
ActionAppendOld(i) ==
    /\ calls[i].op = "action" /\ calls[i].pc = "applied"
    /\ calls' = [calls EXCEPT ![i].pc = "appending",
                              ![i].rec = [state |-> NextState(engine, calls[i].tr, _state),
                                          context |-> calls[i].oldState]]
    /\ last' = NoLast
    /\ UNCHANGED <<engine, eager, machine, _core, _state, _context, _currentIndex,
                   shared, status, emitted, wq, prev, written>>

\* The action has resolved: core.append() is called with the target and the
\* context as it is now, which the core encodes at once.
ActionAppend(i) ==
    /\ calls[i].op = "action" /\ calls[i].pc = "applied"
    /\ calls' = [calls EXCEPT ![i].pc = "appending",
                              ![i].rec = [state |-> NextState(engine, calls[i].tr, _state),
                                          context |-> _context]]
    /\ last' = NoLast
    /\ UNCHANGED <<engine, eager, machine, _core, _state, _context, _currentIndex,
                   shared, status, emitted, wq, prev, written>>

\* core.length === 0
isEmpty == length = 0

\* A core that stores the block twice.
AppendResolveTwice(i) ==
    /\ calls[i].op = "action" /\ calls[i].pc = "appending"
    /\ ~_core.closed
    /\ _core' = [_core EXCEPT !.blocks = Append(Append(@, calls[i].rec), calls[i].rec)]
    /\ written' = [written EXCEPT !.origin = Append(Append(@, calls[i].id), calls[i].id)]
    /\ calls' = [calls EXCEPT ![i].pc = "appended"]
    /\ last' = NoLast
    /\ UNCHANGED <<engine, eager, machine, _state, _context, _currentIndex, shared,
                   status, emitted, wq, prev>>

\* The core has stored the block.
AppendResolve(i) ==
    /\ calls[i].op = "action" /\ calls[i].pc = "appending"
    /\ ~_core.closed
    /\ _core' = [_core EXCEPT !.blocks = Append(@, calls[i].rec)]
    /\ written' = [written EXCEPT !.origin = Append(@, calls[i].id)]
    /\ calls' = [calls EXCEPT ![i].pc = "appended"]
    /\ last' = NoLast
    /\ UNCHANGED <<engine, eager, machine, _state, _context, _currentIndex, shared,
                   status, emitted, wq, prev>>

\* A rejected append after which the state has advanced all the same.
AppendRejectAdvanced(i) ==
    /\ calls[i].op = "action" /\ calls[i].pc = "appending"
    /\ calls' = Remove(calls, i)
    /\ _state' = NextState(engine, calls[i].tr, _state)
    /\ Settle(calls[i], "rejected", "LogFailure", NoRecord, wq, status)
    /\ UNCHANGED <<engine, eager, machine, _core, _context, _currentIndex,
                   shared, emitted, prev, written>>

\* core.append() rejects (a closed core always does): nothing is stored and
\* action() rejects with the core's error.
AppendReject(i) ==
    /\ calls[i].op = "action" /\ calls[i].pc = "appending"
    /\ calls' = Remove(calls, i)
    /\ Settle(calls[i], "rejected", "LogFailure", NoRecord, wq, status)
    /\ UNCHANGED <<engine, eager, machine, _core, _state, _context, _currentIndex,
                   shared, emitted, prev, written>>

\* A commit that also returns the cursor to the tip.
ActionCommitAtTip(i) ==
    /\ calls[i].op = "action" /\ calls[i].pc = "appended"
    /\ LET s == NextState(engine, calls[i].tr, _state)
       IN /\ _state' = s
          /\ _currentIndex' = Null
          /\ emitted' = emitted \o Notices(engine, calls[i].tr, s, _context, calls[i].oldState)
          /\ calls' = Remove(calls, i)
          /\ Settle(calls[i], "resolved", "none", [state |-> s, context |-> _context],
                    wq, status)
    /\ UNCHANGED <<engine, eager, machine, _core, _context, shared, prev, written>>

\* After the append: the state advances, the change is notified, action()
\* returns {state, context}.
ActionCommit(i) ==
    /\ calls[i].op = "action" /\ calls[i].pc = "appended"
    /\ LET s == NextState(engine, calls[i].tr, _state)
       IN /\ _state' = s
          /\ emitted' = emitted \o Notices(engine, calls[i].tr, s, _context, calls[i].oldState)
          /\ calls' = Remove(calls, i)
          /\ Settle(calls[i], "resolved", "none", [state |-> s, context |-> _context],
                    wq, status)
    /\ UNCHANGED <<engine, eager, machine, _core, _context, _currentIndex, shared, prev, written>>

\* ------------------------------------------------- forward() / backward()
\* A forward step that stays on the cursor's block.
ForwardIndexStay(cur, len) == IF cur = Null THEN len - 2 ELSE Val(cur)

ForwardIndex(cur, len) == IF cur = Null THEN len - 2 ELSE Val(cur) + 1
BackwardIndex(cur, len) == IF cur = Null THEN len - 2 ELSE Val(cur) - 1

\* The bounds checks of the two moves, as written.
ForwardMoves(len, newIndex) == len > newIndex /\ newIndex < len
BackwardMoves(len, newIndex) == len > newIndex /\ newIndex >= 0

\* The synchronous head of a move: compute the index, and either request
\* the block or return at once.
MoveHead(op, newIndex, moves) ==
    LET c == [Call(op, "direct", "get", NoTransition)
                 EXCEPT !.idx = newIndex,
                        !.before = IF last.op \in {"forward", "backward"}
                                      /\ last.outcome = "resolved"
                                   THEN [op |-> last.op, pre |-> last.pre]
                                   ELSE NoMove]
    IN /\ Awaited /\ InUse
       /\ IF moves
          THEN /\ calls' = <<c>>
               /\ last' = NoLast
               /\ UNCHANGED <<wq, status>>
          ELSE /\ Settle(c, "resolved", "none", NoRecord, wq, status)
               /\ UNCHANGED calls
       /\ UNCHANGED <<engine, eager, machine, _core, _state, _context, _currentIndex,
                      shared, emitted>>
       /\ prev' = NoPrev
       /\ UNCHANGED written

ForwardCall ==
    LET newIndex == ForwardIndex(_currentIndex, length)
    IN MoveHead("forward", newIndex, ForwardMoves(length, newIndex))

BackwardCall ==
    LET newIndex == BackwardIndex(_currentIndex, length)
    IN MoveHead("backward", newIndex, BackwardMoves(length, newIndex))

\* A move that also pushes the block it has loaded.
GetResolveNotifying(i) ==
    /\ calls[i].op \in {"forward", "backward"} /\ calls[i].pc = "get"
    /\ calls[i].idx >= 0 /\ calls[i].idx < length /\ ~_core.closed
    /\ LET block == _core.blocks[calls[i].idx + 1]
       IN /\ _state' = block.state
          /\ ReplaceContext(block.context, <<Data(block.state, block.context)>>)
          /\ _currentIndex' = At(calls[i].idx)
          /\ calls' = Remove(calls, i)
          /\ Settle(calls[i], "resolved", "none", block, wq, status)
    /\ UNCHANGED <<engine, eager, _core, prev, written>>

\* The requested block has arrived: it replaces state and context and the
\* cursor moves to it.
GetResolve(i) ==
    /\ calls[i].op \in {"forward", "backward"} /\ calls[i].pc = "get"
    /\ calls[i].idx >= 0 /\ calls[i].idx < length /\ ~_core.closed
    /\ LET block == _core.blocks[calls[i].idx + 1]
       IN /\ _state' = block.state
          /\ ReplaceContext(block.context, <<>>)
          /\ _currentIndex' = At(calls[i].idx)
          /\ calls' = Remove(calls, i)
          /\ Settle(calls[i], "resolved", "none", block, wq, status)
    /\ UNCHANGED <<engine, eager, _core, prev, written>>

\* core.get() of an index the core does not hold, or on a closed core: the
\* move fails (or, when this step is never taken, does not settle).
GetReject(i) ==
    /\ calls[i].op \in {"forward", "backward"} /\ calls[i].pc = "get"
    /\ calls[i].idx < 0 \/ calls[i].idx >= length \/ _core.closed
    /\ calls' = Remove(calls, i)
    /\ Settle(calls[i], "rejected", "LogFailure", NoRecord, wq, status)
    /\ UNCHANGED <<engine, eager, machine, _core, _state, _context, _currentIndex,
                   shared, emitted, prev, written>>

\* -------------------------------------------------------------- truncate()
\* A truncate that leaves the log as it is.
TruncateNothing(newLength) ==
    /\ Awaited /\ InUse
    /\ Settle([Call("truncate", "direct", "done", NoTransition)
                  EXCEPT !.idx = newLength],
              "resolved", "none", NoRecord, wq, status)
    /\ UNCHANGED <<engine, eager, machine, _core, _state, _context, _currentIndex,
                   shared, emitted, calls, written>>
    /\ prev' = NoPrev

\* A truncate that also lets go of the cursor.
TruncateResync(newLength) ==
    /\ Awaited /\ InUse
    /\ _core' = [_core EXCEPT !.blocks = SubSeq(@, 1, newLength)]
    /\ Settle([Call("truncate", "direct", "done", NoTransition)
                  EXCEPT !.idx = newLength],
              "resolved", "none", NoRecord, wq, status)
    /\ written' = [written EXCEPT !.origin = SubSeq(@, 1, newLength)]
    /\ _currentIndex' = Null
    /\ UNCHANGED <<engine, eager, machine, _state, _context, shared,
                   emitted, calls>>
    /\ prev' = NoPrev

\* truncate(newLength): return this._core.truncate(newLength).
Truncate(newLength) ==
    /\ Awaited /\ InUse
    /\ _core' = [_core EXCEPT !.blocks = SubSeq(@, 1, newLength)]
    /\ Settle([Call("truncate", "direct", "done", NoTransition)
                  EXCEPT !.idx = newLength],
              "resolved", "none", NoRecord, wq, status)
    /\ written' = [written EXCEPT !.origin = SubSeq(@, 1, newLength)]
    /\ UNCHANGED <<engine, eager, machine, _state, _context, _currentIndex, shared,
                   emitted, calls>>
    /\ prev' = NoPrev

\* ------------------------------------------------------------ the stream
\* A stream that acknowledges a write as soon as it is handed over.
NeverBusy == FALSE

\* The stream holds one write at a time: _write calls back only when the
\* action() it started has settled.
WriteBusy == \E i \in DOMAIN calls : calls[i].via = "write"

DirectBusy == \E i \in DOMAIN calls : calls[i].via = "direct" /\ calls[i].op # "open"

\* chunk.f, undefined when the message has no such property.
ChunkField(chunk, f) == IF f \in DOMAIN chunk THEN chunk[f] ELSE Undefined

\* A _write that reads the name from the `event` property.
WriteEvent(chunk) == ChunkField(chunk, "event")

\* The name _write passes to action(): chunk.action.
WriteAction(chunk) == ChunkField(chunk, "action")

\* What is written into the stream: the messages of the ActionMessage type,
\* and a message of the shape the README documents.
Chunks == Messages \cup {[event |-> "START", value |-> At(1)]}

\* stream.write(message): buffered until the stream is open and free.
Write(msg) ==
    /\ engine = "Coremachine"
    /\ status \in {"constructed", "opening", "opened"}
    /\ ~DirectBusy
    /\ Len(wq) < MaxWrites
    /\ wq' = Append(wq, [chunk |-> msg, id |-> written.next])
    /\ written' = [written EXCEPT !.next = @ + 1]
    /\ last' = NoLast
    /\ UNCHANGED <<engine, eager, machine, _core, _state, _context, _currentIndex,
                   shared, status, emitted, calls>>
    /\ prev' = NoPrev

\* _write(chunk, cb): the stream hands the oldest buffered message to
\* action(chunk.action, chunk.value).
WriteDispatch ==
    /\ engine = "Coremachine"
    /\ status = "opened"
    /\ wq # <<>>
    /\ ~WriteBusy
    /\ ActionHead([action |-> WriteAction(Head(wq).chunk),
                   value |-> ChunkField(Head(wq).chunk, "value"),
                   id |-> Head(wq).id, chunk |-> Head(wq).chunk],
                  "write", Tail(wq), Len(emitted) < MaxEmitted, Bound)
    /\ UNCHANGED <<engine, eager, _core, _state, _currentIndex>>
    /\ prev' = NoPrev
    /\ UNCHANGED written

\* The consumer takes the oldest message off the readable side (or has
\* handled the oldest event).
Read ==
    /\ calls = <<>>
    /\ emitted # <<>>
    /\ emitted' = Tail(emitted)
    /\ last' = NoLast
    /\ UNCHANGED <<engine, eager, machine, _core, _state, _context, _currentIndex,
                   shared, status, wq, calls>>
    /\ prev' = NoPrev
    /\ UNCHANGED written

\* ------------------------------------------------------------------ close
\* _destroy / _close: the core is closed.
Close ==
    /\ calls = <<>>
    /\ status \in {"opened", "destroying"}
    /\ _core' = [_core EXCEPT !.closed = TRUE]
    /\ status' = "closed"
    /\ wq' = <<>>
    /\ last' = NoLast
    /\ prev' = [valid |-> TRUE, state |-> _state, context |-> _context,
                afterAction |-> (last.op = "action" /\ last.outcome = "resolved"),
                truncated |-> IF last.op = "truncate" THEN At(last.idx) ELSE Null,
                fresh |-> FALSE]
    /\ UNCHANGED written
    /\ UNCHANGED <<engine, eager, machine, _state, _context, _currentIndex, shared,
                   emitted, calls>>

\* A new engine is constructed from the same definition on the same log.
Construct ==
    /\ calls = <<>>
    /\ status = "closed"
    /\ _core' = [_core EXCEPT !.closed = FALSE]
    /\ _state' = Constructor(engine, machine).state
    /\ _context' = Constructor(engine, machine).context
    /\ shared' = Constructor(engine, machine).shared
    /\ _currentIndex' = Constructor(engine, machine).index
    /\ status' = "constructed"
    /\ emitted' = <<>>
    /\ wq' = <<>>
    /\ last' = NoLast
    /\ written' = [next |-> 1, origin |-> [k \in DOMAIN written.origin |-> 0]]
    /\ prev' = [prev EXCEPT !.fresh = TRUE]
    /\ UNCHANGED <<engine, eager, machine, calls>>

\* ------------------------------------------------------------------- next
Next ==
    \/ OpenCall
    \/ \E i \in DOMAIN calls : OpenReady(i)
    \/ \E i \in DOMAIN calls : OpenGet(i)
    \/ \E msg \in Messages : ActionCall(msg)
    \/ \E i \in DOMAIN calls : ActionAppend(i)
    \/ \E i \in DOMAIN calls : AppendResolve(i)
    \/ \E i \in DOMAIN calls : AppendReject(i)
    \/ \E i \in DOMAIN calls : ActionCommit(i)
    \/ ForwardCall
    \/ BackwardCall
    \/ \E i \in DOMAIN calls : GetResolve(i)
    \/ \E i \in DOMAIN calls : GetReject(i)
    \/ \E k \in 0..length : Truncate(k)
    \/ Read
    \/ Close
    \/ Construct

Spec == Init /\ [][Next]_vars

\* The stream engine driven through its writable side only.
InitStream == Init /\ engine = "Coremachine"

NextStream ==
    \/ OpenCall
    \/ \E i \in DOMAIN calls : OpenReady(i)
    \/ \E i \in DOMAIN calls : OpenGet(i)
    \/ \E msg \in Chunks : Write(msg)
    \/ WriteDispatch
    \/ \E i \in DOMAIN calls : ActionAppend(i)
    \/ \E i \in DOMAIN calls : AppendResolve(i)
    \/ \E i \in DOMAIN calls : AppendReject(i)
    \/ \E i \in DOMAIN calls : ActionCommit(i)
    \/ Read
    \/ Close
    \/ Construct

SpecStream == InitStream /\ [][NextStream]_vars

\* ------------------------------------------------- a dangling target
\* createMachine returns its argument and the constructors check nothing:
\* a definition whose STOP transition names a state that `states` does not
\* have is accepted as it is.
DanglingMachine ==
    [createMachine(FALSE, FALSE, "none")
        EXCEPT !.states["running"].on["STOP"].target = "stopped"]

DanglingSetups ==
    {[engine |-> e, eager |-> g, machine |-> DanglingMachine] :
        e \in {"Coremachine", "Hyperstate"}, g \in BOOLEAN}

SpecDangling == InitFrom(DanglingSetups) /\ [][Next]_vars

\* ---------------------------------------------------- a log never truncated
\* Both engines used as in Spec by callers that never call truncate().
NextNoTruncate ==
    \/ OpenCall
    \/ \E i \in DOMAIN calls : OpenReady(i)
    \/ \E i \in DOMAIN calls : OpenGet(i)
    \/ \E msg \in Messages : ActionCall(msg)
    \/ \E i \in DOMAIN calls : ActionAppend(i)
    \/ \E i \in DOMAIN calls : AppendResolve(i)
    \/ \E i \in DOMAIN calls : AppendReject(i)
    \/ \E i \in DOMAIN calls : ActionCommit(i)
    \/ ForwardCall
    \/ BackwardCall
    \/ \E i \in DOMAIN calls : GetResolve(i)
    \/ \E i \in DOMAIN calls : GetReject(i)
    \/ Read
    \/ Close
    \/ Construct

SpecNoTruncate == Init /\ [][NextNoTruncate]_vars

\* ------------------------------------------------- calls after close
\* Neither engine looks at its lifecycle in action(), forward() or
\* backward(): a caller that still holds the closed engine can call them.
Closed == status = "closed"

ActionAfterClose(msg) ==
    /\ Awaited /\ Closed
    /\ ActionHead(Direct(msg), "direct", wq, TRUE, Bound)
    /\ UNCHANGED <<engine, eager, _core, _state, _currentIndex, prev, written>>

MoveAfterClose(op, newIndex, moves) ==
    LET c == [Call(op, "direct", "get", NoTransition) EXCEPT !.idx = newIndex]
    IN /\ Awaited /\ Closed
       /\ IF moves
          THEN /\ calls' = <<c>>
               /\ last' = NoLast
               /\ UNCHANGED <<wq, status>>
          ELSE /\ Settle(c, "resolved", "none", NoRecord, wq, status)
               /\ UNCHANGED calls
       /\ UNCHANGED <<engine, eager, machine, _core, _state, _context, _currentIndex,
                      shared, emitted, prev, written>>

ForwardAfterClose ==
    LET newIndex == ForwardIndex(_currentIndex, length)
    IN MoveAfterClose("forward", newIndex, ForwardMoves(length, newIndex))

BackwardAfterClose ==
    LET newIndex == BackwardIndex(_currentIndex, length)
    IN MoveAfterClose("backward", newIndex, BackwardMoves(length, newIndex))

NextClosed ==
    \/ NextNoTruncate
    \/ \E msg \in Messages : ActionAfterClose(msg)
    \/ ForwardAfterClose
    \/ BackwardAfterClose

SpecClosed == Init /\ [][NextClosed]_vars

\* ------------------------------------------------- the example script
\* The counter machine of the example as it is written there: idle with
\* START, running with INCREMENT and STOP, nothing else.
CounterMachine ==
    [createMachine(FALSE, FALSE, "none")
        EXCEPT !.states["running"].on =
                  [n \in {"INCREMENT", "STOP"} |-> RunningOn(FALSE, FALSE)[n]]]

CounterSetups ==
    {[engine |-> e, eager |-> g, machine |-> CounterMachine] :
        e \in {"Coremachine", "Hyperstate"}, g \in BOOLEAN}

\* The calls of the script: START(1), INCREMENT, STOP() and STOP(42).
ScenarioMessages ==
    {[action |-> "START", value |-> At(1)],
     [action |-> "INCREMENT", value |-> NoValue],
     [action |-> "STOP", value |-> NoValue],
     [action |-> "STOP", value |-> At(42)]}

ScenarioBound == [len |-> ScenarioLen, counter |-> ScenarioCounter]

ScenarioCall(msg) ==
    /\ Awaited /\ InUse
    /\ ActionHead(Direct(msg), "direct", wq, TRUE, ScenarioBound)
    /\ UNCHANGED <<engine, eager, _core, _state, _currentIndex, written>>
    /\ prev' = NoPrev

\* The script awaits every call, its log stores every block, and it never
\* truncates or closes.
NextScenario ==
    \/ OpenCall
    \/ \E i \in DOMAIN calls : OpenReady(i)
    \/ \E i \in DOMAIN calls : OpenGet(i)
    \/ \E msg \in ScenarioMessages : ScenarioCall(msg)
    \/ \E i \in DOMAIN calls : ActionAppend(i)
    \/ \E i \in DOMAIN calls : AppendResolve(i)
    \/ \E i \in DOMAIN calls : ActionCommit(i)
    \/ ForwardCall
    \/ BackwardCall
    \/ \E i \in DOMAIN calls : GetResolve(i)
    \/ Read

SpecScenario == InitFrom(CounterSetups) /\ [][NextScenario]_vars

\* ------------------------------------------------- calls not awaited
\* A caller that issues action() while earlier calls are still at one of
\* their awaits: nothing in action() queues or refuses the call.  No
\* transition throws and the log stores every block.
OverlapMessages == {msg \in Messages : msg.action # "FAIL"}

OverlapCall(msg) ==
    /\ InUse
    /\ Len(calls) < MaxCalls
    /\ ActionHead(Direct(msg), "direct", wq, Len(emitted) < MaxEmitted, Bound)
    /\ UNCHANGED <<engine, eager, _core, _state, _currentIndex, written>>
    /\ prev' = NoPrev

NextOverlap ==
    \/ \E msg \in OverlapMessages : OverlapCall(msg)
    \/ \E i \in DOMAIN calls : ActionAppend(i)
    \/ \E i \in DOMAIN calls : AppendResolve(i)
    \/ \E i \in DOMAIN calls : ActionCommit(i)
    \/ Read

SpecOverlap == Init /\ [][NextOverlap]_vars

\* ------------------------------------------------- the counter machine
\* The counter machine of the example under every operation of the two
\* engines, truncate included.
SpecCounter == InitFrom(CounterSetups) /\ [][Next]_vars

\* ------------------------------------------------- progress of the stream
\* One stream engine on an empty log whose producer writes no more
\* messages than the log is driven to hold, whose consumer keeps reading
\* and whose owner does not destroy it: the only teardown is the stream's
\* own, after a write has failed.
ProgressBound == [len |-> MaxLen + 1, counter |-> MaxLen]

ProgressWrite(msg) ==
    /\ written.next <= MaxLen
    /\ Write(msg)

ProgressDispatch ==
    /\ engine = "Coremachine"
    /\ status = "opened"
    /\ wq # <<>>
    /\ ~WriteBusy
    /\ ActionHead([action |-> WriteAction(Head(wq).chunk),
                   value |-> ChunkField(Head(wq).chunk, "value"),
                   id |-> Head(wq).id, chunk |-> Head(wq).chunk],
                  "write", Tail(wq), Len(emitted) < MaxEmitted, ProgressBound)
    /\ UNCHANGED <<engine, eager, _core, _state, _currentIndex, written>>
    /\ prev' = NoPrev

Teardown == status = "destroying" /\ Close

AppendSettles == \E i \in DOMAIN calls : AppendResolve(i) \/ AppendReject(i)

NextProgress ==
    \/ OpenCall
    \/ \E i \in DOMAIN calls : OpenReady(i)
    \/ \E msg \in Chunks : ProgressWrite(msg)
    \/ ProgressDispatch
    \/ \E i \in DOMAIN calls : ActionAppend(i)
    \/ AppendSettles
    \/ \E i \in DOMAIN calls : ActionCommit(i)
    \/ Read
    \/ Teardown

\* Every call into the log and every transition's action settles, the
\* stream runs what it has scheduled, the consumer reads.
Fairness ==
    /\ WF_vars(OpenCall)
    /\ WF_vars(\E i \in DOMAIN calls : OpenReady(i))
    /\ WF_vars(ProgressDispatch)
    /\ WF_vars(\E i \in DOMAIN calls : ActionAppend(i))
    /\ WF_vars(AppendSettles)
    /\ WF_vars(\E i \in DOMAIN calls : ActionCommit(i))
    /\ WF_vars(Read)
    /\ WF_vars(Teardown)

SpecProgress == InitStream /\ [][NextProgress]_vars /\ Fairness

\* ------------------------------------------------- the private-field revision
\* The revision of Hyperstate that keeps its fields private has the
\* constructor, the lookup and the append of the resource engine, opens
\* without start transition or eager mode, and ends action() differently:
\* it emits {newState: transition.target, oldState: this.#state} and only
\* then assigns the state; action() returns nothing.
RevisionSetups ==
    {[engine |-> "Hyperstate", eager |-> FALSE, machine |-> CounterMachine]}

RevisionChange(newState, oldState) ==
    [kind |-> "stateChange", state |-> newState, context |-> NoContext,
     oldState |-> NoContext, live |-> FALSE, from |-> oldState]

\* this.emit("stateChange", ...): the listeners run now.
RevisionEmit(i) ==
    /\ calls[i].op = "action" /\ calls[i].pc = "appended"
    /\ emitted' = Append(emitted, RevisionChange(calls[i].tr.target, _state))
    /\ calls' = [calls EXCEPT ![i].pc = "emitted"]
    /\ last' = NoLast
    /\ UNCHANGED <<engine, eager, machine, _core, _state, _context, _currentIndex,
                   shared, status, wq, prev, written>>

\* this.#state = transition.target, and action() returns.
RevisionCommit(i) ==
    /\ calls[i].op = "action" /\ calls[i].pc = "emitted"
    /\ _state' = calls[i].tr.target
    /\ calls' = Remove(calls, i)
    /\ Settle(calls[i], "resolved", "none", NoRecord, wq, status)
    /\ UNCHANGED <<engine, eager, machine, _core, _context, _currentIndex, shared,
                   emitted, prev, written>>

NextRevision ==
    \/ OpenCall
    \/ \E i \in DOMAIN calls : OpenReady(i)
    \/ \E i \in DOMAIN calls : OpenGet(i)
    \/ \E msg \in Messages : ActionCall(msg)
    \/ \E i \in DOMAIN calls : ActionAppend(i)
    \/ \E i \in DOMAIN calls : AppendResolve(i)
    \/ \E i \in DOMAIN calls : AppendReject(i)
    \/ \E i \in DOMAIN calls : RevisionEmit(i)
    \/ \E i \in DOMAIN calls : RevisionCommit(i)
    \/ Read
    \/ Close
    \/ Construct

SpecRevision == InitFrom(RevisionSetups) /\ [][NextRevision]_vars

\* ============================================================ properties

\* C1: an action name that neither the current state's transitions nor the
\* wildcard state define is rejected with "Invalid action", and afterwards the
\* state, the context, the cursor, the log length and the notifications are
\* what they were before the call; no call for such a name is ever in flight.
InvalidActionAtomicity ==
    LET Defined(s, n) ==
            \/ s \in DOMAIN machine.states /\ n \in DOMAIN machine.states[s].on
            \/ /\ "all" \in DOMAIN machine.states
               /\ n \in DOMAIN machine.states["all"].on
                        \cup DOMAIN machine.states["all"].props
    IN /\ (last.op = "action" /\ ~Defined(last.pre.state, last.name)) =>
            /\ last.outcome = "rejected"
            /\ last.error = "InvalidAction"
            /\ Observable = last.pre
       /\ \A i \in DOMAIN calls :
            calls[i].op = "action" => Defined(calls[i].pre.state, calls[i].name)

\* An undefined action was called on an engine that has a history and a
\* context the call could have changed.
InvalidActionRejected ==
    /\ last.op = "action" /\ last.error = "InvalidAction"
    /\ last.name = "START" /\ last.pre.state = "running"
    /\ last.pre.length > 0 /\ last.pre.context.counter > 0

\* C2: a successful action() appends exactly one record, which holds the
\* state the action moves the engine to (the target of a transition that
\* has one) and the context as the transition's action left it; the value
\* action() returns and the state and context of the engine right after
\* equal that record.
OneRecordPerAction ==
    (last.op = "action" /\ last.outcome = "resolved") =>
        LET record == _core.blocks[length]
        IN /\ length = last.pre.length + 1
           /\ last.tr.target # Undefined => record.state = last.tr.target
           /\ \E msg \in Messages :
                /\ msg.action = last.name
                /\ record.context =
                       ApplyAction(last.tr.action, last.pre.context, msg.value).context
           /\ last.ret = record
           /\ [state |-> _state, context |-> _context] = record

\* An action that changes state and context has succeeded on a log that
\* held a record.
ActionRecorded ==
    /\ last.op = "action" /\ last.outcome = "resolved"
    /\ last.tr.target \notin {Undefined, last.pre.state}
    /\ last.pre.length = 1
    /\ _context # last.pre.context

\* C3: while an action() is in flight the state is the one before the call
\* and nothing has been notified for it; the state advances and the change
\* is notified only once the record of the action is in the log.
DurableBeforeAdvance ==
    /\ \A i \in DOMAIN calls :
          calls[i].op = "action" =>
             /\ _state = calls[i].pre.state
             /\ Len(emitted) = Len(calls[i].pre.emitted)
             /\ calls[i].pc \in {"applied", "appending"} => length = calls[i].pre.length
             /\ calls[i].pc = "appended" =>
                   /\ length = calls[i].pre.length + 1
                   /\ _core.blocks[length] = calls[i].rec
    /\ (last.op = "action" /\ (_state # last.pre.state \/ emitted # last.pre.emitted)) =>
          /\ length = last.pre.length + 1
          /\ _core.blocks[length] = last.rec
          /\ last.rec.state = _state

\* An append is pending for a transition that changes the state.
AppendPending ==
    \E i \in DOMAIN calls :
        /\ calls[i].op = "action" /\ calls[i].pc = "appending"
        /\ calls[i].rec.state # _state
        /\ length > 0

\* C4 (as stated): a fresh engine opened on the log shows the state and the
\* context the previous engine showed right after its last successful action.
ReplayDeterminism ==
    (last.op = "open" /\ last.outcome = "resolved" /\ prev.valid /\ prev.afterAction) =>
        /\ _state = prev.state
        /\ _context = prev.context

\* C4: a fresh engine opened on the log shows the state and the context the
\* previous engine showed right after its last successful action, provided
\* the node of that state defines no `start` transition.
ReplayDeterminismWithoutStart ==
    (/\ last.op = "open" /\ last.outcome = "resolved"
     /\ prev.valid /\ prev.afterAction
     /\ ~HasStartOn(machine, prev.state)) =>
        /\ _state = prev.state
        /\ _context = prev.context

\* A fresh engine has replayed a log of two different records whose last
\* state has no `start` transition.
ReopenedOnHistory ==
    /\ last.op = "open" /\ last.outcome = "resolved"
    /\ prev.valid /\ prev.afterAction
    /\ ~HasStartOn(machine, prev.state)
    /\ length = 2
    /\ _core.blocks[1] # _core.blocks[2]

\* C5: of the actions submitted through the writable side at most one is in
\* flight; a write still buffered is younger than the one in flight; a
\* write acknowledged as successful has its record at the end of the log;
\* the records of the writes are in the log in the order of the writes.
WriteSerialisation ==
    /\ Cardinality({i \in DOMAIN calls : calls[i].op = "action"}) <= 1
    /\ \A i \in DOMAIN calls : \A j \in DOMAIN wq :
          calls[i].via = "write" => calls[i].id < wq[j].id
    /\ \A j, k \in DOMAIN wq : j < k => wq[j].id < wq[k].id
    /\ (last.op = "action" /\ last.via = "write" /\ last.outcome = "resolved") =>
          /\ length > 0
          /\ _core.blocks[length] = last.rec
          /\ written.origin[length] = last.id
    /\ \A a, b \in DOMAIN written.origin :
          (a < b /\ written.origin[a] # 0 /\ written.origin[b] # 0) =>
              written.origin[a] < written.origin[b]

\* The second of two successful writes is acknowledged while a third waits.
WritesRecorded ==
    /\ last.op = "action" /\ last.via = "write" /\ last.outcome = "resolved"
    /\ length = 2
    /\ written.origin[1] # 0
    /\ wq # <<>>

\* C6: when the append rejects, action() rejects with the error of the log,
\* no call remains that would retry it, the state is the one before the
\* call, the log is as long as before and nothing has been notified.
AppendFailure ==
    (last.op = "action" /\ last.error = "LogFailure") =>
        /\ last.outcome = "rejected"
        /\ calls = <<>>
        /\ _state = last.pre.state
        /\ length = last.pre.length
        /\ Len(emitted) = Len(last.pre.emitted)

\* The append of a transition that changes the state was rejected.
AppendRejected ==
    /\ last.op = "action" /\ last.error = "LogFailure"
    /\ last.tr.target # Undefined
    /\ last.tr.target # last.pre.state
    /\ last.pre.length > 0

\* C7 (as stated): when the transition's action throws, action() rejects,
\* nothing is appended, and state and context are what they were before.
PreAppendFailureAtomicity ==
    (last.op = "action" /\ last.error = "ActionError") =>
        /\ last.outcome = "rejected"
        /\ length = last.pre.length
        /\ _state = last.pre.state
        /\ _context = last.pre.context

\* C8: on a log of at least two records, from the tip (no cursor, state and
\* context equal to the last record), backward() and then forward() both
\* succeed and leave the state and the context they started from.
HistoryInverse ==
    (/\ last.op = "forward"
     /\ last.before.op = "backward"
     /\ last.before.pre.index = Null
     /\ last.before.pre.length >= 2
     /\ last.before.pre.length = length
     /\ _core.blocks[length] = [state |-> last.before.pre.state,
                                context |-> last.before.pre.context]) =>
        /\ last.outcome = "resolved"
        /\ _state = last.before.pre.state
        /\ _context = last.before.pre.context

\* backward() and forward() have run from the tip of a log whose two records
\* differ.
BackAndForth ==
    /\ last.op = "forward" /\ last.outcome = "resolved"
    /\ last.before.op = "backward"
    /\ last.before.pre.index = Null
    /\ length = 2
    /\ _core.blocks[2] = [state |-> last.before.pre.state,
                          context |-> last.before.pre.context]
    /\ _core.blocks[1] # _core.blocks[2]

\* C9 (as stated): forward() called at the tip (no cursor, or the cursor on
\* the last record) and backward() called on index 0 succeed and change
\* neither state, context nor cursor, whatever the length of the log.
OutOfBoundsNoOp ==
    (\/ /\ last.op = "forward"
        /\ last.pre.index \in {Null, At(last.pre.length - 1)}
     \/ /\ last.op = "backward"
        /\ last.pre.index = At(0)) =>
        /\ last.outcome = "resolved"
        /\ Observable = last.pre

\* C10 (as stated): without a cursor and with at least two records, the
\* first backward() shows the record at length - 2 and sets the cursor to
\* it, and the first forward() shows the record at length - 1.
FirstMoveFromTip ==
    /\ (last.op = "backward" /\ last.pre.index = Null /\ last.pre.length >= 2) =>
          /\ last.outcome = "resolved"
          /\ _currentIndex = At(last.pre.length - 2)
          /\ [state |-> _state, context |-> _context] = _core.blocks[last.pre.length - 1]
    /\ (last.op = "forward" /\ last.pre.index = Null /\ last.pre.length >= 2) =>
          /\ last.outcome = "resolved"
          /\ [state |-> _state, context |-> _context] = _core.blocks[last.pre.length]

\* C11 (as stated): the cursor is null or an index of the log,
\* 0 <= cursor < length, after any sequence of open, action, forward,
\* backward and truncate.
CursorInBounds ==
    _currentIndex # Null => (0 <= Val(_currentIndex) /\ Val(_currentIndex) < length)

\* C12: no step of forward() or backward(), whether the call moves or
\* returns at once, changes the log or produces a notification.
MovesObserveOnly ==
    [][((\E i \in DOMAIN calls : calls[i].op \in {"forward", "backward"})
        \/ last'.op \in {"forward", "backward"})
       => (_core' = _core /\ Len(emitted') = Len(emitted))]_vars

\* A backward() has moved the engine to the first of two records.
MovedBackward ==
    /\ last.op = "backward" /\ last.outcome = "resolved"
    /\ length = 2
    /\ _currentIndex = At(0)
    /\ last.pre.index = Null

NotificationPolicy ==
    (engine = "Coremachine"
     /\ last.op \in {"action", "forward", "backward", "truncate"}) =>
        IF last.op = "action" /\ last.outcome = "resolved" /\ last.tr.target # Undefined
        THEN /\ Len(emitted) = Len(last.pre.emitted) + 1
             /\ emitted[Len(emitted)].kind = "data"
             /\ emitted[Len(emitted)].state = _state
             /\ emitted[Len(emitted)].context = _context
        ELSE Len(emitted) = Len(last.pre.emitted)

\* The stream engine has pushed the message of an action that changed the
\* state, on a log that held a record.
TransitionPushed ==
    /\ engine = "Coremachine"
    /\ last.op = "action" /\ last.outcome = "resolved"
    /\ last.tr.target \notin {Undefined, last.pre.state}
    /\ last.pre.length = 1
    /\ Len(emitted) = 1

\* C15 (as stated): an eager open on a non-empty log produces exactly one
\* message, which holds the restored state and context and which no message
\* of an action precedes; any other open produces no message.
EagerOpen ==
    (last.op = "open" /\ last.outcome = "resolved") =>
        IF eager /\ length > 0
        THEN /\ Len(emitted) = 1
             /\ emitted[1].state = _state
             /\ emitted[1].context = _context
        ELSE Len(emitted) = Len(last.pre.emitted)

\* C16: when open() restores a record whose state's node defines a `start`
\* transition with a target, the state becomes that target, and the log has
\* the length and the last record it had before.
StartWithoutRecord ==
    (/\ last.op = "open" /\ last.outcome = "resolved" /\ last.pre.length > 0
     /\ HasStartOn(machine, last.rec.state)
     /\ machine.states[last.rec.state].on["start"].target # Undefined) =>
        /\ _state = machine.states[last.rec.state].on["start"].target
        /\ last.ret.state = _state
        /\ length = last.pre.length
        /\ _core.blocks[length] = last.rec

\* An open has resumed into another state than the one the log holds.
ResumedElsewhere ==
    /\ last.op = "open" /\ last.outcome = "resolved"
    /\ length > 0
    /\ HasStartOn(machine, last.rec.state)
    /\ _state # last.rec.state
    /\ _core.blocks[length].state = last.rec.state

\* C17 (as stated): a successful action whose transition has no target
\* leaves the state as it was, applies the transition's action to the
\* context, and appends exactly one record, whose state is that state.
TargetlessSelfLoop ==
    (last.op = "action" /\ last.outcome = "resolved" /\ last.tr.target = Undefined) =>
        /\ _state = last.pre.state
        /\ _context = ApplyAction(last.tr.action, last.pre.context, NoValue).context
        /\ length = last.pre.length + 1
        /\ _core.blocks[length].state = last.pre.state

\* C18 (as stated): when an engine is constructed on a non-empty log, no
\* action() is resolved on it before open has replayed the tip of the log.
ActionsAfterReplay ==
    /\ \A i \in DOMAIN calls :
          (calls[i].op = "action" /\ calls[i].first /\ calls[i].pre.length > 0) =>
              status # "constructed"
    /\ (last.op = "action" /\ last.first /\ last.pre.length > 0) =>
          status # "constructed"

DefinitionImmutable ==
    /\ \E setup \in Setups : machine = setup.machine
    /\ (status = "constructed" /\ prev.fresh) => _context = [counter |-> 0]

\* C21 (as stated): the current state is a key of the states of the
\* definition in every reachable state, for every definition that
\* createMachine and the constructor accept.
ValidState == _state \in DOMAIN machine.states

\* C22: as long as truncate is never called, the log changes only by one
\* record being appended for an action in flight, and that record is the
\* {state, context} the action's transition produces from the state and the
\* context the action was called in; an action that resolves has made the
\* log one longer than it found it, with that record last and returned;
\* every other settled call (open, forward, backward, a rejected action)
\* finds the log as long as it was when the call was made.
RecordOf(c) ==
    [state |-> NextState(engine, c.tr, c.pre.state),
     context |-> ApplyAction(c.tr.action, c.pre.context, c.chunk.value).context]

RecordCorrespondence ==
    [][/\ \/ _core'.blocks = _core.blocks
          \/ \E i \in DOMAIN calls :
                /\ calls[i].op = "action"
                /\ _core'.blocks = Append(_core.blocks, RecordOf(calls[i]))
       /\ IF last'.op = "action" /\ last'.outcome = "resolved"
          THEN /\ Len(_core'.blocks) = last'.pre.length + 1
               /\ _core'.blocks[Len(_core'.blocks)] = RecordOf(last')
               /\ last'.ret = RecordOf(last')
          ELSE last'.op # "none" =>
                  /\ Len(_core'.blocks) = last'.pre.length
                  /\ _core'.blocks = _core.blocks]_vars

\* The first action of an engine opened on a log of one record has committed
\* the log's second record.
SecondRecordCommitted ==
    /\ last.op = "action" /\ last.outcome = "resolved"
    /\ last.first /\ status = "opened"
    /\ last.pre.length = 1
    /\ length = 2
    /\ _core.blocks[2] = RecordOf(last)

\* C23 (as stated): after an action has been rejected as invalid, issued
\* directly or as a stream write, the engine is still in use (constructed
\* or open, neither being destroyed nor closed), so that a following valid
\* action is accepted.
InvalidActionRecoverable ==
    (last.op = "action" /\ last.error = "InvalidAction") => InUse

\* C24 (as stated): every action(), forward() or backward() call made after
\* close has completed is rejected, and leaves the state, the context, the
\* cursor and the log as they were when it was made.
NothingAfterClose ==
    (Closed /\ last.op \in {"action", "forward", "backward"}) =>
        /\ last.outcome = "rejected"
        /\ _state = last.pre.state
        /\ _context = last.pre.context
        /\ _currentIndex = last.pre.index
        /\ length = last.pre.length

\* C25 (as stated): an action name is contained in getAvailableActions()
\* exactly if action() called with it in that state is not rejected as an
\* invalid action.
AvailableActionsAgree ==
    /\ last.op = "action" =>
          (last.name \in getAvailableActions(machine, last.pre.state)
              <=> last.error # "InvalidAction")
    /\ \A i \in DOMAIN calls :
          calls[i].op = "action" =>
              calls[i].name \in getAvailableActions(machine, calls[i].pre.state)

\* What the call that has just settled must have done to be action(E, v)
\* called in the state it was dispatched in: rejected as invalid with
\* nothing changed; or rejected by a throwing transition or by the log,
\* with the context written and nothing else changed; or resolved, with
\* the transition's state and context, one more record holding them, and
\* the notifications of the transition after those pending before.
ActedAs(E, v) ==
    LET tr == Resolve(engine, machine, last.pre.state, E)
        r == ApplyAction(tr.action, last.pre.context, v)
        s == NextState(engine, tr, last.pre.state)
        more == Notices(engine, tr, s, r.context, last.pre.context)
    IN IF tr = NoTransition
       THEN /\ last.error = "InvalidAction"
            /\ _state = last.pre.state /\ _context = last.pre.context
            /\ length = last.pre.length /\ emitted = last.pre.emitted
       ELSE IF r.threw \/ last.outcome = "rejected"
       THEN /\ last.error = IF r.threw THEN "ActionError" ELSE "LogFailure"
            /\ _state = last.pre.state /\ _context = r.context
            /\ length = last.pre.length
            /\ Len(emitted) = Len(last.pre.emitted)
       ELSE /\ last.outcome = "resolved"
            /\ last.ret = [state |-> s, context |-> r.context]
            /\ _state = s /\ _context = r.context
            /\ length = last.pre.length + 1
            /\ _core.blocks[length] = [state |-> s, context |-> r.context]
            /\ Len(emitted) = Len(last.pre.emitted) + Len(more)
            /\ SubSeq(emitted, Len(last.pre.emitted) + 1, Len(emitted)) = more

ScenarioLog ==
    <<[state |-> "running", context |-> [counter |-> 1]],
      [state |-> "running", context |-> [counter |-> 2]],
      [state |-> "running", context |-> [counter |-> 3]],
      [state |-> "idle", context |-> [counter |-> 3]]>>

CounterScenario ==
    LET Before(k) == IF k = 1
                     THEN [state |-> "idle", context |-> [counter |-> 0]]
                     ELSE ScenarioLog[k - 1]
        Called(k, name, v) ==
            /\ last.op = "action" /\ last.name = name /\ last.chunk.value = v
            /\ last.pre.length = k - 1
            /\ last.pre.state = Before(k).state
            /\ last.pre.context = Before(k).context
            /\ SubSeq(_core.blocks, 1, k - 1) = SubSeq(ScenarioLog, 1, k - 1)
        Step(k, name, v) ==
            Called(k, name, v) =>
                /\ last.outcome = "resolved"
                /\ last.ret = ScenarioLog[k]
                /\ _state = ScenarioLog[k].state
                /\ _context = ScenarioLog[k].context
                /\ _core.blocks = SubSeq(ScenarioLog, 1, k)
    IN /\ Step(1, "START", At(1))
       /\ Step(2, "INCREMENT", NoValue)
       /\ Step(3, "INCREMENT", NoValue)
       /\ Step(4, "STOP", NoValue)
       /\ Called(5, "STOP", At(42)) =>
             /\ last.outcome = "rejected" /\ last.error = "InvalidAction"
             /\ _state = "idle"
             /\ _context = [counter |-> 3]
             /\ _core.blocks = ScenarioLog

\* STOP(42) has been rejected after START(1), INCREMENT, INCREMENT, STOP().
ScenarioPlayed ==
    /\ last.op = "action" /\ last.name = "STOP" /\ last.chunk.value = At(42)
    /\ last.outcome = "rejected"
    /\ _core.blocks = ScenarioLog
    /\ _currentIndex = Null
    /\ _state = "idle" /\ _context = [counter |-> 3]

\* C28 (as stated): for a machine without a start transition and a log
\* never truncated, whenever no call is in flight on the opened engine its
\* {state, context} is the record at the cursor when there is a cursor,
\* the last record when there is none and the log is not empty, and the
\* initial {state, context} of the definition when the log is empty.
QuiescentConsistency ==
    (calls = <<>> /\ status = "opened" /\ ~HasStart(machine)) =>
        LET record ==
                IF _currentIndex # Null THEN _core.blocks[Val(_currentIndex) + 1]
                ELSE IF length > 0 THEN _core.blocks[length]
                ELSE [state |-> machine.initial, context |-> [counter |-> 0]]
        IN /\ _state = record.state
           /\ _context = record.context

\* C29 (as stated): with overlapping action() calls the log is that of the
\* calls executed one after the other: every record is what some valid,
\* non-throwing action produces from the record before it (from the
\* initial state and context for the first record).
Serialisable ==
    \A k \in 1..length :
        LET before == IF k = 1
                      THEN [state |-> machine.initial, context |-> [counter |-> 0]]
                      ELSE _core.blocks[k - 1]
        IN \E msg \in Messages :
              LET tr == Resolve(engine, machine, before.state, msg.action)
                  r == ApplyAction(tr.action, before.context, msg.value)
              IN /\ tr # NoTransition
                 /\ ~r.threw
                 /\ _core.blocks[k] =
                       [state |-> NextState(engine, tr, before.state),
                        context |-> r.context]

\* C30 (as stated): under awaited use of open, action, forward and
\* backward on a machine without start transition and wildcard state, the
\* log is a path of the machine: the state of record 0 is the target of a
\* transition defined on the initial state, and the state of every later
\* record is the target of a transition defined on the state of the record
\* before it (or that state itself, for a transition without target).
LogIsPath ==
    \A k \in 1..length :
        LET from == IF k = 1 THEN machine.initial ELSE _core.blocks[k - 1].state
            to == _core.blocks[k].state
        IN /\ from \in DOMAIN machine.states
           /\ \E n \in DOMAIN machine.states[from].on :
                 LET target == machine.states[from].on[n].target
                 IN \/ target = to
                    \/ target = Undefined /\ to = from

\* C31: an action called while the cursor is not null is resolved against
\* the state loaded at the cursor (rejected as invalid exactly if that
\* state and the wildcard define no transition for the name); its record,
\* the transition applied to the loaded state and context, is appended
\* after the last record while every record already in the log stays as it
\* is; and the cursor keeps its value through the call.
ActionAtCursor ==
    [][/\ \A i \in DOMAIN calls :
             (calls[i].op = "action" /\ calls[i].pre.index # Null) =>
                /\ _currentIndex' = calls[i].pre.index
                /\ \/ _core'.blocks = _core.blocks
                   \/ /\ Len(_core.blocks) = calls[i].pre.length
                      /\ _core'.blocks = Append(_core.blocks, RecordOf(calls[i]))
       /\ (last'.op = "action" /\ last'.pre.index # Null) =>
             /\ _currentIndex' = last'.pre.index
             /\ last'.tr = Resolve(engine, machine, last'.pre.state, last'.name)
             /\ (last'.error = "InvalidAction") <=> (last'.tr = NoTransition)
             /\ last'.outcome = "resolved" =>
                   /\ last'.ret = RecordOf(last')
                   /\ _state' = RecordOf(last').state
                   /\ _context' = RecordOf(last').context
                   /\ Len(_core'.blocks) = last'.pre.length + 1
                   /\ _core'.blocks[last'.pre.length + 1] = RecordOf(last')]_vars

\* After START(1), a second action and backward(), an action called at
\* cursor 0 has committed the third record.
ForkedFromHistory ==
    /\ last.op = "action" /\ last.outcome = "resolved"
    /\ last.pre.index = At(0)
    /\ last.pre.length = 2
    /\ length = 3
    /\ _currentIndex = At(0)
    /\ _core.blocks[3] # _core.blocks[2]

\* C32 (as stated): whenever no call is in flight, a cursor that is not
\* null designates a record before the last one, which the engine shows;
\* and with a null cursor the engine shows the last record (the initial
\* state on an empty log).
CursorMeansHistory ==
    (calls = <<>> /\ status = "opened") =>
        IF _currentIndex # Null
        THEN /\ Val(_currentIndex) < length - 1
             /\ _state = _core.blocks[Val(_currentIndex) + 1].state
             /\ _context = _core.blocks[Val(_currentIndex) + 1].context
        ELSE length > 0 =>
                /\ _state = _core.blocks[length].state
                /\ _context = _core.blocks[length].context

\* C33: truncate(n) leaves in the log exactly the records before index n,
\* unchanged, and changes nothing else: state, context, cursor, the
\* definition and the pending notifications are what they were before the
\* call.
TruncateOnlyLog ==
    [][last'.op = "truncate" =>
          /\ last'.outcome = "resolved"
          /\ _core'.blocks = SubSeq(_core.blocks, 1, last'.idx)
          /\ _core'.closed = _core.closed
          /\ _state' = _state
          /\ _context' = _context
          /\ _currentIndex' = _currentIndex
          /\ emitted' = emitted
          /\ machine' = machine
          /\ status' = status]_vars

\* truncate(1) has been called on a log of two records with the cursor at
\* record 0.
TruncatedAtCursor ==
    /\ last.op = "truncate" /\ last.idx = 1
    /\ last.pre.length = 2
    /\ length = 1
    /\ _currentIndex = At(0)

\* C34 (as stated): in the stream engine an action whose name the current
\* state does not define but the wildcard node `all` defines among its
\* transitions is accepted and applies the wildcard's transition; a name
\* the current state defines applies the current state's own transition.
WildcardFallback ==
    (last.op = "action" /\ engine = "Coremachine") =>
        LET s == last.pre.state
            own == IF s \in DOMAIN machine.states THEN machine.states[s].on ELSE NoProps
            wild == IF HasAll(machine)
                    THEN machine.states["all"].on @@ machine.states["all"].props
                    ELSE NoProps
        IN IF last.name \in DOMAIN own
           THEN last.tr = own[last.name]
           ELSE last.name \in DOMAIN wild =>
                   /\ last.error # "InvalidAction"
                   /\ last.tr = wild[last.name]

\* C35 (as stated): every block the engine requests from the log, in
\* open(), forward() or backward(), has an index between 0 and
\* length - 1.
ReadsInRange ==
    \A i \in DOMAIN calls :
        calls[i].pc = "get" => calls[i].idx \in 0..(length - 1)

\* C36 (as stated): a message pushed to the readable side keeps the state
\* and the context it was pushed with until it is read: in every step the
\* pending messages are those of before with new ones behind them, or
\* those of before without the first, or none (a new engine).
MessagesAreSnapshots ==
    [][LET Content(seq) ==
               [k \in DOMAIN seq |-> [state |-> seq[k].state, context |-> seq[k].context]]
           old == Content(emitted)
           new == Content(emitted')
       IN \/ new = <<>>
          \/ Len(new) >= Len(old) /\ SubSeq(new, 1, Len(old)) = old
          \/ old # <<>> /\ new = Tail(old)]_vars

\* C37 (as stated): when every log call and every transition's action
\* settles, every message written to the stream is eventually
\* acknowledged: the action() started for it settles, resolved or
\* rejected.
WritesAcknowledged ==
    \A n \in 1..MaxLen :
        (\E k \in DOMAIN wq : wq[k].id = n) ~> (last.via = "write" /\ last.id = n)

\* C38: in the event-emitter engine an action that resolves has emitted
\* exactly one stateChange event, whose oldState is the context the action
\* was called with and whose newState is the context its transition has
\* produced from it; an action that is rejected, a forward and a backward
\* have emitted none.
StateChangePayload ==
    (engine = "Hyperstate" /\ last.op \in {"action", "forward", "backward"}) =>
        IF last.op = "action" /\ last.outcome = "resolved"
        THEN /\ Len(emitted) = Len(last.pre.emitted) + 1
             /\ emitted[Len(emitted)].kind = "stateChange"
             /\ emitted[Len(emitted)].oldState = last.pre.context
             /\ emitted[Len(emitted)].context = RecordOf(last).context
             /\ emitted[Len(emitted)].context = _context
        ELSE Len(emitted) = Len(last.pre.emitted)

\* START(1) on the event-emitter engine has emitted its event, from
\* counter 0 to counter 1.
StartChangeEmitted ==
    /\ engine = "Hyperstate"
    /\ last.op = "action" /\ last.name = "START" /\ last.outcome = "resolved"
    /\ Len(emitted) = 1
    /\ emitted[1].oldState = [counter |-> 0]
    /\ emitted[1].context = [counter |-> 1]

\* C39 (as stated): when the notification of an action is delivered, the
\* state accessor is the state the action leads to and the log holds the
\* action's record: both while the listeners of an emit run inside
\* action() and when action() has returned after notifying.
NotifiedAfterUpdate ==
    /\ \A i \in DOMAIN calls :
          calls[i].pc = "emitted" =>
             /\ _state = calls[i].rec.state
             /\ length > 0 /\ _core.blocks[length] = calls[i].rec
    /\ (last.op = "action" /\ last.outcome = "resolved"
        /\ Len(emitted) > Len(last.pre.emitted)) =>
             /\ _state = last.rec.state
             /\ length > 0 /\ _core.blocks[length] = last.rec

====
